---------------------------- MODULE Spec2Model ----------------------------
(***************************************************************************)
(* Model of copy_esrigrid_to_geotiff_rename_and_clip_w_Arguments.py: the   *)
(* grid-file classifier, the naming of products, the per-region clipping   *)
(* loop, the packaging of archives, the metadata documents and the upload. *)
(*                                                                         *)
(* Strings.  A string is a sequence of symbols.  A symbol is either one of *)
(* the characters the script splits or strips on ("_", ".", "/", " ") or a *)
(* word that holds none of them and stands for its characters ("annual",   *)
(* "Total-Rainfall", "tif").  No word of the model is a prefix or a suffix *)
(* of another, so startswith, endswith, split and strip on symbols agree   *)
(* with Python's on characters.  The path separator is written "/".        *)
(***************************************************************************)
EXTENDS Naturals, Sequences, FiniteSets, TLC

VARIABLES
    s3_defined,     \* whether the module-level import of boto3 bound the name s3
    tree,           \* what os.walk yields: the <<root, file>> entries in traversal order
    features,       \* the rows of the region feature layer, in cursor order
    pc,             \* the statement the run is at
    ascfile_dict,   \* the module-level dict: groups [base_name, file_list] in insertion order
    grp, fidx,      \* process_files_in_ascdict: the group and the file of its list in hand
    row,            \* the cursor row in hand
    fs,             \* the local files: path -> <<file_path, row>> of the pair that wrote it
    zip_file,       \* the archive that the `with` block has just closed:
                    \* <<[path, dir, base, members, failed]>>, <<>> at any other statement
    docs,           \* the metadata documents: path -> json_data
    log,            \* the artifacts and upload attempts of the run, in order
    lastUpload,     \* the last call of upload_file: <<>> or <<[file_path, object_name, error, returned]>>
    raised,         \* <<>> or <<[exc, at]>>: the exception that left main()
    errors,         \* the messages of the top-level handler
    exit_status,    \* <<>> while the process runs, then <<status>>
    fnIn,           \* the arguments of the function under study (Spec_key, Spec_title)
    fnOut           \* its result, <<>> before the call

runvars == <<s3_defined, tree, features, pc, ascfile_dict, grp, fidx, row, fs, zip_file,
             docs, log, lastUpload, raised, errors, exit_status>>

vars == <<runvars, fnIn, fnOut>>

---------------------------------------------------------------------------
(* Python's str and os.path operations, on sequences of symbols.           *)

Take(s, n) == SubSeq(s, 1, n)

Drop(s, n) == SubSeq(s, n + 1, Len(s))

\* str.startswith
StartsWith(s, pre) ==
    /\ Len(pre) <= Len(s)
    /\ Take(s, Len(pre)) = pre

\* str.endswith
EndsWith(s, suf) ==
    /\ Len(suf) <= Len(s)
    /\ Drop(s, Len(s) - Len(suf)) = suf

\* str.find from position i: the least position >= i where sep occurs in s, 0 if none
RECURSIVE FindFrom(_, _, _)
FindFrom(s, sep, i) ==
    IF i + Len(sep) - 1 > Len(s) THEN 0
    ELSE IF SubSeq(s, i, i + Len(sep) - 1) = sep THEN i
    ELSE FindFrom(s, sep, i + 1)

\* str.find: the least 1-based position where sep occurs in s, 0 if none
Find(s, sep) == FindFrom(s, sep, 1)

\* str.rfind of one symbol: the greatest position of c in s, 0 if none
RECURSIVE RFind(_, _)
RFind(s, c) ==
    IF s = <<>> THEN 0
    ELSE IF s[Len(s)] = c THEN Len(s)
    ELSE RFind(SubSeq(s, 1, Len(s) - 1), c)

\* str.split(sep): the pieces of s between the occurrences of sep, left to right
RECURSIVE Split(_, _)
Split(s, sep) ==
    LET i == Find(s, sep)
    IN  IF i = 0 THEN <<s>>
        ELSE <<Take(s, i - 1)>> \o Split(Drop(s, i - 1 + Len(sep)), sep)

\* str.strip(c): every leading and every trailing c removed
RECURSIVE LStrip(_, _)
LStrip(s, c) == IF s # <<>> /\ Head(s) = c THEN LStrip(Tail(s), c) ELSE s

RECURSIVE RStrip(_, _)
RStrip(s, c) == IF s # <<>> /\ s[Len(s)] = c THEN RStrip(Take(s, Len(s) - 1), c) ELSE s

Strip(s, c) == RStrip(LStrip(s, c), c)

\* os.path.basename: what follows the last separator
Basename(p) == Drop(p, RFind(p, "/"))

\* os.path.dirname: what precedes the last separator, its trailing separators removed
Dirname(p) ==
    LET head == Take(p, RFind(p, "/"))
    IN  IF head # <<>> /\ RStrip(head, "/") # <<>> THEN RStrip(head, "/") ELSE head

\* os.path.join of two components
Join(a, b) ==
    IF b # <<>> /\ Head(b) = "/" THEN b
    ELSE IF a = <<>> \/ a[Len(a)] = "/" THEN a \o b
    ELSE a \o <<"/">> \o b

\* os.path.splitext: <<root, ext>>, split at the last dot of the last component
\* unless only dots precede it there
SplitExt(p) ==
    LET sepIndex == RFind(p, "/")
        dotIndex == RFind(p, ".")
    IN  IF dotIndex > sepIndex /\ \E k \in (sepIndex + 1)..(dotIndex - 1) : p[k] # "."
        THEN <<Take(p, dotIndex - 1), Drop(p, dotIndex - 1)>>
        ELSE <<p, <<>>>>

\* every string of at most n symbols of alphabet A
StringsUpTo(A, n) == UNION { [1..k -> A] : k \in 0..n }

---------------------------------------------------------------------------
(* upload_file: the object key.                                            *)

\* a prefix that Python takes as false: None or ""
NoPrefix == <<>>

\* object_name with only the trailing slashes of the prefix removed
object_name_rstrip(file_path, prefix) ==
    LET file_name == Basename(file_path)
    IN  IF prefix # NoPrefix
        THEN RStrip(prefix, "/") \o <<"/">> \o file_name
        ELSE file_name

object_name(file_path, prefix) ==
    LET file_name == Basename(file_path)
    IN  IF prefix # NoPrefix
        THEN Strip(prefix, "/") \o <<"/">> \o file_name
        ELSE file_name

---------------------------------------------------------------------------
(* Region title normalization.                                             *)

SpaceRegion == <<" ", "Region">>

region_title(display_name) ==
    LET t == Split(display_name, SpaceRegion)[1]
    IN  IF StartsWith(t, <<"Area">>) THEN <<"Chatham", " ", "Islands">> ELSE t

---------------------------------------------------------------------------
(* Module-level configuration and lookup tables.                           *)

PREFIX == <<"climatology-grids">>

\* The three output roots.  "export" stands for D:\Temp\climate_raster_grids_export;
\* the zipped-products directory is the subdirectory "zipped" of the regions one.
OUTPUT_FOLDER_CONVERTED == <<"export", "/", "converted">>
OUTPUT_FOLDER_REGIONS == <<"export", "/", "regions_grids">>
OUTPUT_FOLDER_ZIPPED == <<"export", "/", "regions_grids", "/", "zipped">>

lookup_month_and_season_name ==
    (<<"monthly1">> :> <<"January">>) @@ (<<"monthly2">> :> <<"February">>) @@
    (<<"monthly3">> :> <<"March">>) @@ (<<"monthly4">> :> <<"April">>) @@
    (<<"monthly5">> :> <<"May">>) @@ (<<"monthly6">> :> <<"June">>) @@
    (<<"monthly7">> :> <<"July">>) @@ (<<"monthly8">> :> <<"August">>) @@
    (<<"monthly9">> :> <<"September">>) @@ (<<"monthly10">> :> <<"October">>) @@
    (<<"monthly11">> :> <<"November">>) @@ (<<"monthly12">> :> <<"December">>) @@
    (<<"seasonal1">> :> <<"Summer">>) @@ (<<"seasonal2">> :> <<"Autumn">>) @@
    (<<"seasonal3">> :> <<"Winter">>) @@ (<<"seasonal4">> :> <<"Spring">>) @@
    (<<"annual">> :> <<"Annual">>)

lookup_dict_parameter ==
    (<<"00">> :> <<"Total-Rainfall">>) @@
    (<<"01">> :> <<"Wet-Days-GT-1mm">>) @@
    (<<"02">> :> <<"Mean-Air-Temperature">>) @@
    (<<"03">> :> <<"Mean-Daily-Maximum-Air-Temperature">>) @@
    (<<"04">> :> <<"Mean-Daily-Minimum-Air-Temperature">>) @@
    (<<"09">> :> <<"Total-Sunshine">>) @@
    (<<"11">> :> <<"Mean-Earth-Temperature-At-10cm">>) @@
    (<<"17">> :> <<"Mean-Daily-Global-Irradiance">>) @@
    (<<"23">> :> <<"Screen-Frost-Days">>) @@
    (<<"33">> :> <<"Mean-Daily-Wind-Speed-At-10m">>) @@
    (<<"34">> :> <<"Total-Penman-PET">>) @@
    (<<"37">> :> <<"Total-Growing-Degree-Days-GDD-base-5degC">>) @@
    (<<"38">> :> <<"Total-Growing-Degree-Days-GDD-base-10degC">>) @@
    (<<"64">> :> <<"Mean-9AM-RH">>) @@
    (<<"68">> :> <<"Total-Heating-Degree-Days-HDD-base-18degC">>) @@
    (<<"74">> :> <<"Days-Of-Soil-Moisture-Deficit">>)

lookup_dict_region ==
    (<<"01">> :> <<"Northland">>) @@ (<<"02">> :> <<"Auckland">>) @@
    (<<"03">> :> <<"Waikato">>) @@ (<<"04">> :> <<"Bay-Of-Plenty">>) @@
    (<<"05">> :> <<"Gisborne">>) @@ (<<"06">> :> <<"Hawkes-Bay">>) @@
    (<<"07">> :> <<"Taranaki">>) @@ (<<"08">> :> <<"Manawatu-Whanganui">>) @@
    (<<"09">> :> <<"Wellington">>) @@ (<<"12">> :> <<"West-Coast">>) @@
    (<<"13">> :> <<"Canterbury">>) @@ (<<"14">> :> <<"Otago">>) @@
    (<<"15">> :> <<"Southland">>) @@ (<<"16">> :> <<"Tasman">>) @@
    (<<"17">> :> <<"Nelson">>) @@ (<<"18">> :> <<"Marlborough">>) @@
    (<<"99">> :> <<"Chatham-Islands">>)

---------------------------------------------------------------------------
(* parse_input_files: the classifier.                                      *)

\* the dict's group of key k, 0 if k is no key
KeyIndex(d, k) ==
    LET hits == { i \in 1..Len(d) : d[i].base_name = k }
    IN  IF hits = {} THEN 0 ELSE CHOOSE i \in hits : TRUE

\* AddFile that replaces the list of a known stem instead of appending to it
AddFile_overwrite(d, root, file) ==
    IF EndsWith(file, <<".", "asc">>)
    THEN LET base_name == SplitExt(file)[1]
             i == KeyIndex(d, base_name)
         IN  IF i # 0
             THEN [d EXCEPT ![i].file_list = <<Join(root, file)>>]
             ELSE Append(d, [base_name |-> base_name, file_list |-> <<Join(root, file)>>])
    ELSE d

\* one turn of the inner loop: the file `file` of directory `root`
AddFile(d, root, file) ==
    IF EndsWith(file, <<".", "asc">>)
    THEN LET base_name == SplitExt(file)[1]
             i == KeyIndex(d, base_name)
         IN  IF i # 0
             THEN [d EXCEPT ![i].file_list = Append(@, Join(root, file))]
             ELSE Append(d, [base_name |-> base_name, file_list |-> <<Join(root, file)>>])
    ELSE d

\* the loops over os.walk, from the dict d
RECURSIVE Classify(_, _)
Classify(walk, d) ==
    IF walk = <<>> THEN d
    ELSE Classify(Tail(walk), AddFile(d, Head(walk)[1], Head(walk)[2]))

---------------------------------------------------------------------------
(* process_files_in_ascdict: names and paths.                              *)

parts(base_name) == Split(base_name, <<"_">>)

\* The exception that the naming of a file of stem base_name raises before any
\* raster is written, "none" if it raises none: parts[1], then the period lookup,
\* then the parameter lookup and parts[4] of the f-string.
NamingRaises(base_name) ==
    LET p == parts(base_name)
    IN  IF Len(p) < 2 THEN "IndexError"
        ELSE IF p[Len(p)] \notin DOMAIN lookup_month_and_season_name THEN "KeyError"
        ELSE IF p[2] \notin DOMAIN lookup_dict_parameter THEN "KeyError"
        ELSE IF Len(p) < 5 THEN "IndexError"
        ELSE "none"

month_and_season(base_name) ==
    lookup_month_and_season_name[parts(base_name)[Len(parts(base_name))]]

new_file_name(base_name) ==
    lookup_dict_parameter[parts(base_name)[2]] \o <<"_">> \o parts(base_name)[5]
        \o <<"_", "1991-2020", "_">> \o month_and_season(base_name)

output_raster(base_name) ==
    Join(OUTPUT_FOLDER_CONVERTED, new_file_name(base_name) \o <<".", "tif">>)

\* named after the subfolder of the input file, whatever region is clipped
output_folder_converted_region(file_path) ==
    Join(OUTPUT_FOLDER_REGIONS, Basename(Dirname(file_path)))

output_clipped_raster(file_path, base_name, region_name) ==
    Join(output_folder_converted_region(file_path),
         Split(new_file_name(base_name), <<".">>)[1] \o <<"_">> \o region_name
            \o <<".", "tif">>)

tif_base_name(clipped) == SplitExt(Basename(clipped))[1]

zip_file_path(clipped) ==
    Join(OUTPUT_FOLDER_ZIPPED, tif_base_name(clipped) \o <<".", "zip">>)

\* What Clip_management leaves beside the clipped raster while the archive is
\* built: the raster, its world file, its statistics, and a lock file.
ClipSuffixes ==
    { <<".", "tif">>, <<".", "tfw">>, <<".", "tif", ".", "aux", ".", "xml">>,
      <<".", "tif", ".", "lock">> }

\* os.listdir: the names of the files of directory dir
ListDir(files, dir) == { Basename(p) : p \in { q \in files : Dirname(q) = dir } }

\* a set as a sequence, in some order
RECURSIVE SetToSeq(_)
SetToSeq(S) ==
    IF S = {} THEN <<>>
    ELSE LET x == CHOOSE y \in S : TRUE IN <<x>> \o SetToSeq(S \ {x})

\* ZipLoop without the try block: the first failing write ends the loop
RECURSIVE ZipLoop_uncaught(_, _, _)
ZipLoop_uncaught(listing, base, failing) ==
    IF listing = <<>> THEN {}
    ELSE LET file == Head(listing)
         IN  IF StartsWith(file, base) /\ ~EndsWith(file, <<".", "lock">>)
             THEN IF file \in failing THEN {}
                  ELSE {file} \cup ZipLoop_uncaught(Tail(listing), base, failing)
             ELSE ZipLoop_uncaught(Tail(listing), base, failing)

\* The loop that fills the archive: the members written, given the names whose
\* zip_file.write raises (the exception is caught in the loop body).
RECURSIVE ZipLoop(_, _, _)
ZipLoop(listing, base, failing) ==
    IF listing = <<>> THEN {}
    ELSE LET file == Head(listing)
             rest == ZipLoop(Tail(listing), base, failing)
         IN  IF StartsWith(file, base)
             THEN IF EndsWith(file, <<".", "lock">>) THEN rest
                  ELSE IF file \in failing THEN rest
                  ELSE {file} \cup rest
             ELSE rest

---------------------------------------------------------------------------
(* create_json_file: the path and the fields src, productRef, period,      *)
(* statistic and region of the document (the title, the description, the   *)
(* geometry and the dates are not modelled).                               *)

json_file_path(file_path) ==
    Join(OUTPUT_FOLDER_ZIPPED, SplitExt(Basename(file_path))[1] \o <<".", "json">>)

json_data(file_path, prefix, title, period) ==
    LET file_name == Basename(file_path)
        file_stem == SplitExt(file_name)[1]
        components == Split(file_name, <<"_">>)
    IN  [ src |-> <<"/">> \o prefix \o <<"/">> \o file_stem \o <<".", "zip">>,
          productRef |-> prefix,
          period |-> period,
          statistic |-> components[2],
          region |-> title ]

---------------------------------------------------------------------------
(* upload_file: the outcome of the call.                                   *)

\* The exception raised inside the try block: NameError when the name s3 is
\* unbound, the client's error when the transfer fails, "none" otherwise.
UploadError(s3_bound, transfer_ok) ==
    IF ~s3_bound THEN "NameError"
    ELSE IF ~transfer_ok THEN "S3UploadFailedError"
    ELSE "none"

\* upload_file with `except ClientError`: the NameError of an unbound s3 escapes
upload_file_narrow(file_path, prefix, s3_bound, transfer_ok) ==
    LET e == UploadError(s3_bound, transfer_ok)
    IN  [ file_path |-> file_path,
          object_name |-> object_name(file_path, prefix),
          error |-> e,
          returned |-> (e = "none"),
          escapes |-> IF e = "NameError" THEN e ELSE "none" ]

\* `except Exception` catches every such error: upload_file returns False and
\* nothing is raised to the caller.
upload_file(file_path, prefix, s3_bound, transfer_ok) ==
    LET e == UploadError(s3_bound, transfer_ok)
    IN  [ file_path |-> file_path,
          object_name |-> object_name(file_path, prefix),
          error |-> e,
          returned |-> (e = "none"),
          escapes |-> "none" ]

---------------------------------------------------------------------------
(* The inputs of a run.                                                    *)

\* the files of an input tree
MaxFiles == 2
\* the rows of a feature layer
MaxFeatures == 2
\* the member writes that fail while one archive is built
MaxWriteErrors == 1

InputRoot == <<"grids">>

Stem(parameter_code, segment5, period) ==
    <<"clim", "_">> \o parameter_code \o <<"_", "nz", "_", "500m", "_">> \o segment5
        \o <<"_">> \o period

\* the files of a subfolder, in the order os.walk lists them
FileNames ==
    << Stem(<<"00">>, <<"5">>, <<"annual">>) \o <<".", "asc">>,
       Stem(<<"zz">>, <<"5">>, <<"annual">>) \o <<".", "asc">>,
       Stem(<<"00">>, <<"0", ".", "5">>, <<"annual">>) \o <<".", "asc">>,
       Stem(<<"00">>, <<"5">>, <<"weekly">>) \o <<".", "asc">>,
       <<"notes", ".", "txt">> >>

\* os.walk over the whole input: every <<root, file>> entry once, the files of a
\* directory together
FullWalk ==
    [i \in 1..Len(FileNames) |-> <<Join(InputRoot, <<"01">>), FileNames[i]>>]
        \o [i \in 1..Len(FileNames) |-> <<Join(InputRoot, <<"zipped">>), FileNames[i]>>]

\* the subsequences of s of at most n elements
RECURSIVE SubSeqs(_, _)
SubSeqs(s, n) ==
    IF s = <<>> \/ n = 0 THEN { <<>> }
    ELSE { <<Head(s)>> \o t : t \in SubSeqs(Tail(s), n - 1) } \cup SubSeqs(Tail(s), n)

\* an input tree holds at most MaxFiles of the files
Trees == SubSeqs(FullWalk, MaxFiles)

\* the rows of the feature layer, in cursor order
LayerRows ==
    << [REGC_code |-> <<"01">>, REGC_name_ascii |-> <<"Northland", " ", "Region">>],
       [REGC_code |-> <<"99">>,
        REGC_name_ascii |-> <<"Area", " ", "Outside", " ", "Region">>],
       [REGC_code |-> <<"10">>, REGC_name_ascii |-> <<"Unlisted", " ", "Region">>],
       [REGC_code |-> <<"14">>, REGC_name_ascii |-> <<"Otago", " ", "Region">>] >>

\* a feature layer holds at most MaxFeatures of the rows
FeatureLayers == SubSeqs(LayerRows, MaxFeatures)

Init ==
    /\ s3_defined \in BOOLEAN
    /\ tree \in Trees
    /\ features \in FeatureLayers
    /\ pc = "main"
    /\ ascfile_dict = <<>>
    /\ grp = 1
    /\ fidx = 1
    /\ row = 0
    /\ fs = <<>>
    /\ zip_file = <<>>
    /\ docs = <<>>
    /\ log = <<>>
    /\ lastUpload = <<>>
    /\ raised = <<>>
    /\ errors = 0
    /\ exit_status = <<>>
    /\ fnIn = <<>>
    /\ fnOut = <<>>

---------------------------------------------------------------------------
(* The run: main(), process_files_in_ascdict statement by statement, and   *)
(* the top-level handler.                                                  *)

CurBaseName == ascfile_dict[grp].base_name

CurFilePath == ascfile_dict[grp].file_list[fidx]

CurRegionName == lookup_dict_region[features[row].REGC_code]

CurClipped == output_clipped_raster(CurFilePath, CurBaseName, CurRegionName)

Event(op, path) == [op |-> op, file |-> CurFilePath, row |-> row, path |-> path]

Raise(exc, at) ==
    /\ raised' = <<[exc |-> exc, at |-> at]>>
    /\ pc' = "raised"

\* parser.parse_args() rejects the command line: SystemExit(2), which is no
\* Exception and passes the top-level handler
ArgError ==
    /\ pc = "main"
    /\ raised' = <<[exc |-> "SystemExit", at |-> "parse_args"]>>
    /\ exit_status' = <<2>>
    /\ pc' = "exited"
    /\ UNCHANGED <<s3_defined, tree, features, ascfile_dict, grp, fidx, row, fs,
                   zip_file, docs, log, lastUpload, errors, fnIn, fnOut>>

\* main() up to the call of process_files_in_ascdict: the arguments parse and
\* parse_input_files fills the dict (the three output directories it makes are not
\* modelled: fs holds files only)
parse_input_files ==
    /\ pc = "main"
    /\ ascfile_dict' = Classify(tree, ascfile_dict)
    /\ pc' = "file"
    /\ UNCHANGED <<s3_defined, tree, features, grp, fidx, row, fs, zip_file, docs, log,
                   lastUpload, raised, errors, exit_status, fnIn, fnOut>>

\* NamingFails with the error caught in the loop body: on to the next file
NamingFails_skip ==
    /\ pc = "file"
    /\ grp <= Len(ascfile_dict)
    /\ NamingRaises(CurBaseName) # "none"
    /\ IF fidx < Len(ascfile_dict[grp].file_list)
       THEN fidx' = fidx + 1 /\ grp' = grp
       ELSE fidx' = 1 /\ grp' = grp + 1
    /\ UNCHANGED <<s3_defined, tree, features, pc, ascfile_dict, row, fs, zip_file,
                   docs, log, lastUpload, raised, errors, exit_status,
                   fnIn, fnOut>>

\* the head of the file loop, when a lookup or an index of the naming fails
NamingFails ==
    /\ pc = "file"
    /\ grp <= Len(ascfile_dict)
    /\ NamingRaises(CurBaseName) # "none"
    /\ Raise(NamingRaises(CurBaseName), "naming")
    /\ UNCHANGED <<s3_defined, tree, features, ascfile_dict, grp, fidx, row, fs,
                   zip_file, docs, log, lastUpload, errors, exit_status,
                   fnIn, fnOut>>

\* the head of the file loop: the names, CopyRaster and DefineProjection
ConvertFile ==
    /\ pc = "file"
    /\ grp <= Len(ascfile_dict)
    /\ NamingRaises(CurBaseName) = "none"
    /\ fs' = (output_raster(CurBaseName) :> <<CurFilePath, 0>>) @@ fs
    /\ log' = Append(log, [op |-> "convert", file |-> CurFilePath, row |-> 0,
                           path |-> output_raster(CurBaseName)])
    /\ row' = 1
    /\ pc' = "cursor"
    /\ UNCHANGED <<s3_defined, tree, features, ascfile_dict, grp, fidx, zip_file, docs,
                   lastUpload, raised, errors, exit_status, fnIn, fnOut>>

\* the cursor is exhausted: on to the next file of the list, or the next group
NextFile ==
    /\ pc = "cursor"
    /\ row > Len(features)
    /\ IF fidx < Len(ascfile_dict[grp].file_list)
       THEN fidx' = fidx + 1 /\ grp' = grp
       ELSE fidx' = 1 /\ grp' = grp + 1
    /\ pc' = "file"
    /\ UNCHANGED <<s3_defined, tree, features, ascfile_dict, row, fs, zip_file, docs,
                   log, lastUpload, raised, errors, exit_status, fnIn, fnOut>>

\* a row of code "99": continue
SkipRegion ==
    /\ pc = "cursor"
    /\ row <= Len(features)
    /\ features[row].REGC_code = <<"99">>
    /\ row' = row + 1
    /\ UNCHANGED <<s3_defined, tree, features, pc, ascfile_dict, grp, fidx, fs, zip_file,
                   docs, log, lastUpload, raised, errors, exit_status,
                   fnIn, fnOut>>

\* a row whose code is no key of lookup_dict_region
RegionLookupFails ==
    /\ pc = "cursor"
    /\ row <= Len(features)
    /\ features[row].REGC_code # <<"99">>
    /\ features[row].REGC_code \notin DOMAIN lookup_dict_region
    /\ Raise("KeyError", "region")
    /\ UNCHANGED <<s3_defined, tree, features, ascfile_dict, grp, fidx, row, fs,
                   zip_file, docs, log, lastUpload, errors, exit_status,
                   fnIn, fnOut>>

\* Clip_management for the row in hand
ClipRegion ==
    /\ pc = "cursor"
    /\ row <= Len(features)
    /\ features[row].REGC_code # <<"99">>
    /\ features[row].REGC_code \in DOMAIN lookup_dict_region
    /\ LET stem == SplitExt(CurClipped)[1]
           made == { stem \o s : s \in ClipSuffixes }
       IN  fs' = [p \in made |-> <<CurFilePath, row>>] @@ fs
    /\ log' = Append(log, Event("clip", CurClipped))
    /\ pc' = "zip"
    /\ UNCHANGED <<s3_defined, tree, features, ascfile_dict, grp, fidx, row, zip_file,
                   docs, lastUpload, raised, errors, exit_status, fnIn, fnOut>>

\* the `with zipfile.ZipFile(zip_file_path, "w")` block: the archive is created,
\* then the directory of the clipped raster is listed and its members written
BuildArchive ==
    /\ pc = "zip"
    /\ LET path == zip_file_path(CurClipped)
           dir == Dirname(CurClipped)
           base == tif_base_name(CurClipped)
           created == (path :> <<CurFilePath, row>>) @@ fs
           listing == ListDir(DOMAIN created, dir)
       IN  \E failing \in SUBSET { f \in listing : StartsWith(f, base)
                                                    /\ ~EndsWith(f, <<".", "lock">>) } :
              /\ Cardinality(failing) <= MaxWriteErrors
              /\ fs' = created
              /\ zip_file' = <<[path |-> path, dir |-> dir, base |-> base,
                                members |-> ZipLoop(SetToSeq(listing), base, failing),
                                failed |-> failing]>>
              /\ log' = Append(log, Event("zip", path))
    /\ pc' = "upload_zip"
    /\ UNCHANGED <<s3_defined, tree, features, ascfile_dict, grp, fidx, row, docs,
                   lastUpload, raised, errors, exit_status, fnIn, fnOut>>

\* one call of upload_file from the loop body, moving on to statement `next`
CallUpload(file_path, next, next_row) ==
    \E transfer_ok \in BOOLEAN :
        LET r == upload_file(file_path, PREFIX, s3_defined, transfer_ok)
        IN  /\ s3_defined \/ transfer_ok      \* no transfer without a client
            /\ lastUpload' = <<r>>
            /\ log' = Append(log, Event("upload", file_path))
            /\ IF r.escapes # "none"
               THEN Raise(r.escapes, "upload_file") /\ row' = row
               ELSE pc' = next /\ row' = next_row /\ raised' = raised

\* upload_file(zip_file_path, ...); the closed archive handle is not used again
UploadArchive ==
    /\ pc = "upload_zip"
    /\ CallUpload(zip_file_path(CurClipped), "json", row)
    /\ zip_file' = <<>>
    /\ UNCHANGED <<s3_defined, tree, features, ascfile_dict, grp, fidx, fs, docs, errors,
                   exit_status, fnIn, fnOut>>

\* md_file = create_json_file(...)
create_json_file ==
    /\ pc = "json"
    /\ LET path == json_file_path(CurClipped)
       IN  /\ docs' = (path :> json_data(CurClipped, PREFIX,
                                         region_title(features[row].REGC_name_ascii),
                                         month_and_season(CurBaseName))) @@ docs
           /\ fs' = (path :> <<CurFilePath, row>>) @@ fs
           /\ log' = Append(log, Event("json", path))
    /\ pc' = "upload_json"
    /\ UNCHANGED <<s3_defined, tree, features, ascfile_dict, grp, fidx, row, zip_file,
                   lastUpload, raised, errors, exit_status, fnIn, fnOut>>

\* upload_file(md_file, ...), then the next row
UploadMetadata ==
    /\ pc = "upload_json"
    /\ CallUpload(json_file_path(CurClipped), "cursor", row + 1)
    /\ UNCHANGED <<s3_defined, tree, features, ascfile_dict, grp, fidx, fs, zip_file,
                   docs, errors, exit_status, fnIn, fnOut>>

\* the loops are done: main() returns and the process ends
Finish ==
    /\ pc = "file"
    /\ grp > Len(ascfile_dict)
    /\ exit_status' = <<0>>
    /\ pc' = "exited"
    /\ UNCHANGED <<s3_defined, tree, features, ascfile_dict, grp, fidx, row, fs,
                   zip_file, docs, log, lastUpload, raised, errors,
                   fnIn, fnOut>>

\* TopLevelHandler that ends the process with a failure status
TopLevelHandler_status ==
    /\ pc = "raised"
    /\ errors' = errors + 1
    /\ exit_status' = <<1>>
    /\ pc' = "exited"
    /\ UNCHANGED <<s3_defined, tree, features, ascfile_dict, grp, fidx, row, fs,
                   zip_file, docs, log, lastUpload, raised, fnIn, fnOut>>

\* `except Exception as e: arcpy.AddError(...)`, then the end of the script
TopLevelHandler ==
    /\ pc = "raised"
    /\ errors' = errors + 1
    /\ exit_status' = <<0>>
    /\ pc' = "exited"
    /\ UNCHANGED <<s3_defined, tree, features, ascfile_dict, grp, fidx, row, fs,
                   zip_file, docs, log, lastUpload, raised, fnIn, fnOut>>

Next ==
    \/ ArgError
    \/ parse_input_files
    \/ NamingFails
    \/ ConvertFile
    \/ NextFile
    \/ SkipRegion
    \/ RegionLookupFails
    \/ ClipRegion
    \/ BuildArchive
    \/ UploadArchive
    \/ create_json_file
    \/ UploadMetadata
    \/ Finish
    \/ TopLevelHandler

Spec == Init /\ [][Next]_vars

---------------------------------------------------------------------------
(* Spec_key: upload_file's key for every file path and prefix in bounds.   *)

\* the symbols of a prefix and of a file path
MaxPrefixLen == 3
MaxPathLen == 3

PrefixAlphabet == {"/", "climatology-grids"}
PathAlphabet == {"/", "foo", ".", "zip"}

\* no run of the script: the function is studied alone
NoRun ==
    /\ s3_defined = TRUE
    /\ tree = <<>>
    /\ features = <<>>
    /\ pc = "none"
    /\ ascfile_dict = <<>>
    /\ grp = 1
    /\ fidx = 1
    /\ row = 0
    /\ fs = <<>>
    /\ zip_file = <<>>
    /\ docs = <<>>
    /\ log = <<>>
    /\ lastUpload = <<>>
    /\ raised = <<>>
    /\ errors = 0
    /\ exit_status = <<>>

InitKey ==
    /\ NoRun
    /\ fnIn \in { [file_path |-> p, prefix |-> x] :
                    p \in StringsUpTo(PathAlphabet, MaxPathLen),
                    x \in StringsUpTo(PrefixAlphabet, MaxPrefixLen) }
    /\ fnOut = <<>>

BuildKey ==
    /\ fnOut = <<>>
    /\ fnOut' = <<object_name(fnIn.file_path, fnIn.prefix)>>
    /\ UNCHANGED <<runvars, fnIn>>

Spec_key == InitKey /\ [][BuildKey]_vars

---------------------------------------------------------------------------
(* Spec_title: the title of every display name in bounds.                  *)

\* the symbols of a display name
MaxNameLen == 5

NameAlphabet == {"Area", " ", "Region", "Otago"}

InitTitle ==
    /\ NoRun
    /\ fnIn \in { [display_name |-> n] : n \in StringsUpTo(NameAlphabet, MaxNameLen) }
    /\ fnOut = <<>>

DeriveTitle ==
    /\ fnOut = <<>>
    /\ fnOut' = <<region_title(fnIn.display_name)>>
    /\ UNCHANGED <<runvars, fnIn>>

Spec_title == InitTitle /\ [][DeriveTitle]_vars

---------------------------------------------------------------------------
(* Spec_src: the two names process_files_in_ascdict gives the archive of a *)
(* pair, for every prefix in bounds: the key upload_file builds and the    *)
(* src field create_json_file writes.                                      *)

\* the files of the input whose stem names a product
GoodFiles ==
    { FullWalk[i] : i \in { k \in 1..Len(FullWalk) :
                              /\ EndsWith(FullWalk[k][2], <<".", "asc">>)
                              /\ NamingRaises(SplitExt(FullWalk[k][2])[1]) = "none" } }

\* the rows the loop body runs for
GoodRows ==
    { LayerRows[i] : i \in { k \in 1..Len(LayerRows) :
                               /\ LayerRows[k].REGC_code # <<"99">>
                               /\ LayerRows[k].REGC_code \in DOMAIN lookup_dict_region } }

InitSrc ==
    /\ NoRun
    /\ fnIn \in { [file_path |-> Join(w[1], w[2]), base_name |-> SplitExt(w[2])[1],
                   row |-> r, prefix |-> x] :
                    w \in GoodFiles, r \in GoodRows,
                    x \in StringsUpTo(PrefixAlphabet, MaxPrefixLen) }
    /\ fnOut = <<>>

\* the body of the cursor loop from the archive on: upload_file(zip_file_path, ...)
\* and create_json_file(output_clipped_raster, prefix, ...)
NamePair ==
    /\ fnOut = <<>>
    /\ LET clipped == output_clipped_raster(fnIn.file_path, fnIn.base_name,
                                            lookup_dict_region[fnIn.row.REGC_code])
           up == upload_file(zip_file_path(clipped), fnIn.prefix, TRUE, TRUE)
           md == json_data(clipped, fnIn.prefix, region_title(fnIn.row.REGC_name_ascii),
                           month_and_season(fnIn.base_name))
       IN  fnOut' = <<[object_name |-> up.object_name, src |-> md.src]>>
    /\ UNCHANGED <<runvars, fnIn>>

Spec_src == InitSrc /\ [][NamePair]_vars

---------------------------------------------------------------------------
(* Properties.                                                             *)

\* the paths of the ".asc" files of the tree, in traversal order
AscPaths ==
    SelectSeq([i \in 1..Len(tree) |-> Join(tree[i][1], tree[i][2])],
              LAMBDA p : EndsWith(p, <<".", "asc">>))

StemOf(path) == SplitExt(Basename(path))[1]

\* parse_input_files has returned
Parsed == pc # "main" /\ (raised = <<>> \/ raised[1].at # "parse_args")

\* C1: after the one call of parse_input_files of a run, the dict holds exactly one
\* group per distinct stem of the ".asc" files of the tree, and the group of a stem
\* lists exactly the paths of that stem, each once, in traversal order, whatever
\* subfolder they lie in; no other file is in any group.
C1_Classifier ==
    Parsed =>
        /\ \A i, j \in 1..Len(ascfile_dict) :
              i # j => ascfile_dict[i].base_name # ascfile_dict[j].base_name
        /\ { ascfile_dict[i].base_name : i \in 1..Len(ascfile_dict) }
              = { StemOf(AscPaths[k]) : k \in 1..Len(AscPaths) }
        /\ \A i \in 1..Len(ascfile_dict) :
              ascfile_dict[i].file_list
                = SelectSeq(AscPaths, LAMBDA p : StemOf(p) = ascfile_dict[i].base_name)

\* C1 witness: two files of one stem from two subfolders share a group
C1_Witness ==
    /\ Parsed
    /\ \E i \in 1..Len(ascfile_dict) :
          /\ Len(ascfile_dict[i].file_list) = 2
          /\ Dirname(ascfile_dict[i].file_list[1]) # Dirname(ascfile_dict[i].file_list[2])

\* C2: when the archive of a clipped raster has been built, no member's name ends
\* in ".lock", and every other file of the raster's directory whose name starts
\* with the raster's basename is a member unless its own write failed: a failed
\* write leaves the other members in.
C2_Packaging ==
    (pc = "upload_zip" /\ zip_file # <<>>) =>
        LET z == zip_file[1]
            listing == ListDir(DOMAIN fs, z.dir)
        IN  /\ \A f \in z.members : ~EndsWith(f, <<".", "lock">>)
            /\ \A f \in listing :
                  (StartsWith(f, z.base) /\ ~EndsWith(f, <<".", "lock">>)
                        /\ f \notin z.failed)
                    => f \in z.members
            /\ z.members \subseteq { f \in listing : StartsWith(f, z.base) }
            /\ z.members \cap z.failed = {}

\* C2 witness: a member write failed, a lock file lay in the directory, and the
\* other same-prefix files are in the archive
C2_Witness ==
    /\ pc = "upload_zip"
    /\ zip_file # <<>>
    /\ zip_file[1].failed # {}
    /\ Cardinality(zip_file[1].members) >= 2
    /\ \E f \in ListDir(DOMAIN fs, zip_file[1].dir) :
          StartsWith(f, zip_file[1].base) /\ EndsWith(f, <<".", "lock">>)

\* the files of the dict in iteration order
RECURSIVE Flatten(_)
Flatten(d) == IF d = <<>> THEN <<>> ELSE Head(d).file_list \o Flatten(Tail(d))

\* the rows the loop clips: those whose code is not "99"
ClippedRows == { r \in 1..Len(features) : features[r].REGC_code # <<"99">> }

Uploaded(file, r, ext) ==
    \E i \in 1..Len(log) :
        /\ log[i].op = "upload"
        /\ log[i].file = file
        /\ log[i].row = r
        /\ EndsWith(log[i].path, ext)

\* C3: upload_file raises nothing to its caller; whenever the transfer fails, and
\* always when s3 is unbound, it returns False; the attempt on an archive is followed
\* by the metadata document of the same pair, and a run that ends without error has
\* attempted both uploads of every pair of a file and a row not coded "99".
C3_UploadBoundary ==
    /\ raised # <<>> => raised[1].at # "upload_file"
    /\ lastUpload # <<>> =>
          /\ lastUpload[1].error # "none" => lastUpload[1].returned = FALSE
          /\ ~s3_defined => lastUpload[1].error = "NameError"
    /\ \A i \in 1..Len(log) :
          (log[i].op = "upload" /\ EndsWith(log[i].path, <<".", "zip">>)) =>
              IF i = Len(log) THEN pc = "json"
              ELSE /\ log[i + 1].op = "json"
                   /\ log[i + 1].file = log[i].file
                   /\ log[i + 1].row = log[i].row
    /\ (pc = "exited" /\ raised = <<>>) =>
          \A k \in 1..Len(Flatten(ascfile_dict)) : \A r \in ClippedRows :
              /\ Uploaded(Flatten(ascfile_dict)[k], r, <<".", "zip">>)
              /\ Uploaded(Flatten(ascfile_dict)[k], r, <<".", "json">>)

\* C3 witness: a run without the client ends without error after four failed uploads
C3_Witness ==
    /\ pc = "exited"
    /\ raised = <<>>
    /\ ~s3_defined
    /\ lastUpload # <<>>
    /\ lastUpload[1].returned = FALSE
    /\ Cardinality({ i \in 1..Len(log) : log[i].op = "upload" }) >= 4

\* C4 (as amended): for a non-empty prefix the key is the prefix without its leading
\* and trailing slashes, then "/", then the basename of the path, with no double
\* slash at the join; for an empty or missing prefix it is the basename alone.
C4_ObjectKey ==
    (fnOut # <<>> /\ "prefix" \in DOMAIN fnIn) =>
        LET key == fnOut[1]
            prefix == fnIn.prefix
            base == Basename(fnIn.file_path)
            n == Len(prefix)
        IN  IF prefix = NoPrefix THEN key = base
            ELSE \E a, b \in 0..n :
                    LET q == SubSeq(prefix, a + 1, n - b)
                    IN  /\ a + b <= n
                        /\ \A i \in 1..a : prefix[i] = "/"
                        /\ \A i \in (n - b + 1)..n : prefix[i] = "/"
                        /\ q # <<>> => (q[1] # "/" /\ q[Len(q)] # "/")
                        /\ q = <<>> => a + b = n
                        /\ key = q \o <<"/">> \o base
                        /\ base # <<>> => key[Len(q) + 2] # "/"

\* C4 witness: the prefix "climatology-grids/" and the file "foo.zip"
C4_Witness ==
    /\ fnOut = << <<"climatology-grids", "/", "foo", ".", "zip">> >>
    /\ fnIn = [file_path |-> <<"foo", ".", "zip">>,
               prefix |-> <<"climatology-grids", "/">>]

\* C4 (as claimed): for a non-empty prefix the key is the prefix with its trailing
\* slash stripped, then "/", then the basename.
C4_TrailingSlashOnly ==
    (fnOut # <<>> /\ "prefix" \in DOMAIN fnIn /\ fnIn.prefix # NoPrefix) =>
        fnOut[1] = RStrip(fnIn.prefix, "/") \o <<"/">> \o Basename(fnIn.file_path)

\* the stem has a second segment that is no parameter code, or a last segment that
\* is no period token
BadKey(base_name) ==
    LET p == parts(base_name)
    IN  /\ Len(p) >= 2
        /\ \/ p[2] \notin DOMAIN lookup_dict_parameter
           \/ p[Len(p)] \notin DOMAIN lookup_month_and_season_name

\* the files that precede the file in hand in iteration order
EarlierFiles ==
    LET before == Flatten(SubSeq(ascfile_dict, 1, grp - 1))
                    \o SubSeq(ascfile_dict[grp].file_list, 1, fidx - 1)
    IN  { before[k] : k \in 1..Len(before) }

LaterFiles ==
    LET all == Flatten(ascfile_dict)
    IN  { all[k] : k \in 1..Len(all) } \ (EarlierFiles \cup {CurFilePath})

Artifacts == <<fs, docs, log, lastUpload>>

\* C5: when the file in hand has such a stem, the next step raises KeyError out of
\* process_files_in_ascdict and writes nothing; from then on the run only ends, no
\* artifact changes, and no raster, archive, document or upload exists for that file
\* or for a later one.
C5_KeyErrorAborts ==
    [][ /\ (pc = "file" /\ grp <= Len(ascfile_dict) /\ BadKey(CurBaseName)) =>
              /\ raised' = <<[exc |-> "KeyError", at |-> "naming"]>>
              /\ pc' = "raised"
              /\ Artifacts' = Artifacts
        /\ (raised # <<>> /\ raised[1].at = "naming") =>
              /\ pc' = "exited"
              /\ raised' = raised
              /\ Artifacts' = Artifacts
              /\ <<grp, fidx>>' = <<grp, fidx>>
        /\ (raised' # <<>> /\ raised'[1].at = "naming") =>
              /\ \A k \in 1..Len(log') : log'[k].file \in EarlierFiles'
              /\ \A p \in DOMAIN fs' : fs'[p][1] \in EarlierFiles'
      ]_vars

\* C5 witness: the run has ended on the KeyError of a stem while a later file with a
\* good stem and a row to clip were still to come
C5_Witness ==
    /\ pc = "exited"
    /\ raised = <<[exc |-> "KeyError", at |-> "naming"]>>
    /\ BadKey(CurBaseName)
    /\ \E f \in LaterFiles : NamingRaises(StemOf(f)) = "none"
    /\ ClippedRows # {}

\* C6 (as claimed): the title of a display name that ends in " Region" is the name
\* without that trailing suffix, or "Chatham Islands" if what is left begins with
\* "Area"; no title begins with "Area".
C6_TitleNormalization ==
    (fnOut # <<>> /\ "display_name" \in DOMAIN fnIn) =>
        LET n == fnIn.display_name
            t == fnOut[1]
        IN  /\ EndsWith(n, SpaceRegion) =>
                  LET d == Take(n, Len(n) - Len(SpaceRegion))
                  IN  t = IF StartsWith(d, <<"Area">>)
                          THEN <<"Chatham", " ", "Islands">> ELSE d
            /\ ~StartsWith(t, <<"Area">>)

ZipEvents == { i \in 1..Len(log) : log[i].op = "zip" }

\* C7 (as claimed): after a run without error the zipped-products directory holds
\* one archive per pair of a file and a row not coded "99", none for a row coded
\* "99", and no two pairs have written the same archive path.
C7_OneArchivePerPair ==
    (pc = "exited" /\ raised = <<>>) =>
        /\ \A i, j \in ZipEvents : i # j => log[i].path # log[j].path
        /\ Cardinality({ p \in DOMAIN fs :
                            Dirname(p) = OUTPUT_FOLDER_ZIPPED /\ EndsWith(p, <<".", "zip">>) })
              = Len(Flatten(ascfile_dict)) * Cardinality(ClippedRows)
        /\ \A i \in ZipEvents : features[log[i].row].REGC_code # <<"99">>

\* C8 (as claimed): the archive of a pair is named by the product name of the stem,
\* "_", the region name and ".zip", and the document of the pair by the same stem
\* and ".json".
C8_ArchiveName ==
    \A i \in 1..Len(log) :
        LET e == log[i]
            stem == new_file_name(StemOf(e.file)) \o <<"_">>
                        \o lookup_dict_region[features[e.row].REGC_code]
        IN  /\ e.op = "zip" => Basename(e.path) = stem \o <<".", "zip">>
            /\ e.op = "json" => Basename(e.path) = stem \o <<".", "json">>

\* the classes of exception that `except Exception` catches
ExceptionClasses == { "KeyError", "IndexError", "NameError", "S3UploadFailedError" }

\* C9 (as amended): an exception of class Exception that leaves main() is reported
\* by the top-level handler in one message and the process ends with status 0, as
\* after a complete run; the SystemExit of a rejected command line is not handled:
\* no message, status 2.
C9_TopLevelHandler ==
    /\ pc = "exited" =>
          /\ raised = <<>> => (errors = 0 /\ exit_status = <<0>>)
          /\ (raised # <<>> /\ raised[1].exc \in ExceptionClasses) =>
                (errors = 1 /\ exit_status = <<0>>)
          /\ (raised # <<>> /\ raised[1].exc = "SystemExit") =>
                (errors = 0 /\ exit_status = <<2>>)
    /\ pc = "raised" => (raised # <<>> /\ raised[1].exc \in ExceptionClasses /\ errors = 0)

\* C9 witness: a run that wrote artifacts, then failed, has ended with status 0
C9_Witness ==
    /\ pc = "exited"
    /\ raised # <<>>
    /\ raised[1].exc = "KeyError"
    /\ errors = 1
    /\ exit_status = <<0>>
    /\ log # <<>>

\* C9 (as claimed): whatever exception leaves main(), the handler reports it once
\* and the process ends with the status of a complete run.
C9_AnyException ==
    (pc = "exited" /\ raised # <<>>) => (errors = 1 /\ exit_status = <<0>>)

\* C10 (as claimed): no upload of a pair's archive is attempted before the pair's
\* metadata document is written, and a pair whose two files exist gets both uploads.
C10_UploadAfterPair ==
    /\ \A i \in 1..Len(log) :
          (log[i].op = "upload" /\ EndsWith(log[i].path, <<".", "zip">>)) =>
              \E j \in 1..(i - 1) :
                  /\ log[j].op = "json"
                  /\ log[j].file = log[i].file
                  /\ log[j].row = log[i].row
    /\ (pc = "exited" /\ raised = <<>>) =>
          \A j \in 1..Len(log) :
              log[j].op = "json" =>
                  /\ Uploaded(log[j].file, log[j].row, <<".", "zip">>)
                  /\ Uploaded(log[j].file, log[j].row, <<".", "json">>)

\* the artifacts the run wrote into the zipped-products directory
WriteEvents == { i \in 1..Len(log) : log[i].op \in {"zip", "json"} }

\* C11 (as claimed): no call of upload_file, whatever its outcome, changes a local
\* file or document, and when the run ends every archive and every metadata
\* document written during the run is in the zipped-products directory with the
\* content of the pair that wrote it.
C11_ArtifactsKept ==
    /\ [][ /\ pc \in {"upload_zip", "upload_json"} => (fs' = fs /\ docs' = docs)
          ]_vars
    /\ [](pc = "exited" =>
            \A i \in WriteEvents :
                LET e == log[i]
                IN  /\ e.path \in DOMAIN fs
                    /\ Dirname(e.path) = OUTPUT_FOLDER_ZIPPED
                    /\ e.op = "zip" => fs[e.path] = <<e.file, e.row>>
                    /\ e.op = "json" =>
                          /\ e.path \in DOMAIN docs
                          /\ docs[e.path]
                               = json_data(output_clipped_raster(e.file, StemOf(e.file),
                                               lookup_dict_region[features[e.row].REGC_code]),
                                           PREFIX,
                                           region_title(features[e.row].REGC_name_ascii),
                                           month_and_season(StemOf(e.file))))

\* C12 (as claimed): the members of an archive are the clipped raster and its
\* sidecar files only: no member is a metadata document or an archive, whatever
\* the subfolder of the input file.
C12_ArchiveMembers ==
    zip_file # <<>> =>
        \A f \in zip_file[1].members :
            /\ ~EndsWith(f, <<".", "json">>)
            /\ ~EndsWith(f, <<".", "zip">>)
            /\ f \in { zip_file[1].base \o s : s \in ClipSuffixes }

\* C13 (as claimed): for every prefix, the src field of a pair's document without
\* its leading "/" is the object key of the pair's archive.
C13_SrcMatchesKey ==
    fnOut # <<>> =>
        /\ fnOut[1].src # <<>>
        /\ Head(fnOut[1].src) = "/"
        /\ Tail(fnOut[1].src) = fnOut[1].object_name

HasEvent(op, file, r) ==
    \E j \in 1..Len(log) : log[j].op = op /\ log[j].file = file /\ log[j].row = r

\* C14 (as claimed): no row whose code is not "99" raises out of the cursor loop,
\* and when the run has ended every file that was converted has a clipped raster,
\* an archive and a metadata document for every row not coded "99".
C14_EveryRegionYields ==
    /\ raised # <<>> => raised[1].at # "region"
    /\ pc = "exited" =>
          \A i \in 1..Len(log) :
              log[i].op = "convert" =>
                  \A r \in ClippedRows :
                      /\ HasEvent("clip", log[i].file, r)
                      /\ HasEvent("zip", log[i].file, r)
                      /\ HasEvent("json", log[i].file, r)

=============================================================================
